---- MODULE Spec2Model ----
(***************************************************************************)
(* A model of sudoku.py: the 81-character loader, the whole-board check,   *)
(* the candidate query, the backtracking solver and the solution counter,  *)
(* driven in the order of the script's main block (load, copy, query,      *)
(* count on the original, solve on the copy).  Recursion is an explicit    *)
(* stack of frames (row, col, guess).                                      *)
(***************************************************************************)
EXTENDS Integers, Sequences, FiniteSets, TLC

VARIABLES puzzle_string, example_board, warned, board_copy_for_solving,
          possible, qcell, board_copy, solution_count, num_solutions,
          solved, stack, retval, pc, at

vars == <<puzzle_string, example_board, warned, board_copy_for_solving,
          possible, qcell, board_copy, solution_count, num_solutions,
          solved, stack, retval, pc, at>>

\* ------------------------------------------------------------------------
\* Values
\* ------------------------------------------------------------------------
\* None, also standing for the pair (None, None) of find_next_empty
None == << >>

EMPTY == 0 - 1

Idx == 0 .. 8

Digits == 1 .. 9

DigitChars == <<"1", "2", "3", "4", "5", "6", "7", "8", "9">>

empty_char == "."

\* ------------------------------------------------------------------------
\* Inputs: 81-character strings obtained from one solved grid by blanking
\* some of the cells of FreeCells and overwriting at most one other of them
\* with any digit or with an illegal character, plus one short string.
\* ------------------------------------------------------------------------
MaxEmpty == 4

SolvedRows == << <<5,3,4,6,7,8,9,1,2>>, <<6,7,2,1,9,5,3,4,8>>,
                 <<1,9,8,3,4,2,5,6,7>>, <<8,5,9,7,6,1,4,2,3>>,
                 <<4,2,6,8,5,3,7,9,1>>, <<7,1,3,9,2,4,8,5,6>>,
                 <<9,6,1,5,3,7,2,8,4>>, <<2,8,7,4,1,9,6,3,5>>,
                 <<3,4,5,2,8,6,1,7,9>> >>

FreeCells == { <<0,0>>, <<0,3>>, <<0,4>>, <<3,3>>, <<3,4>> }

OverrideChars == { DigitChars[d] : d \in Digits } \cup { "x" }

InputString(blank, over) ==
    [ i \in 1 .. 81 |->
        LET rc == << (i - 1) \div 9, (i - 1) % 9 >>
        IN  IF rc \in blank THEN empty_char
            ELSE IF over # << >> /\ over[1] = rc THEN over[2]
            ELSE DigitChars[SolvedRows[rc[1] + 1][rc[2] + 1]] ]

Inputs ==
    { InputString(blank, << >>) :
        blank \in { b \in SUBSET FreeCells : Cardinality(b) <= MaxEmpty } }
    \cup
    UNION { { InputString(blank, <<rc, ch>>) :
                rc \in FreeCells \ blank, ch \in OverrideChars } :
            blank \in { b \in SUBSET FreeCells : Cardinality(b) <= MaxEmpty } }
    \cup
    { SubSeq(InputString({}, << >>), 1, 80) }

\* ------------------------------------------------------------------------
\* find_next_empty: row-major scan, first cell holding -1
\* ------------------------------------------------------------------------
\* the index at which a loop over range(9) that returns at its first match
\* stops, the matches being S
first_in_range(S) == CHOOSE x \in S : \A y \in S : x <= y

\* a scan column by column instead of row by row
find_next_empty_column_major(puzzle) ==
    LET cols == { c \in Idx : \E r \in Idx : puzzle[r][c] = EMPTY }
    IN  IF cols = {} THEN None
        ELSE LET c == first_in_range(cols)
                 r == first_in_range({ x \in Idx : puzzle[x][c] = EMPTY })
             IN  <<r, c>>

\* "for r in range(9): for c in range(9): if puzzle[r][c] == -1: return r, c":
\* the first row with a cell holding -1 and the first such cell in it;
\* None, None when the loops run out
find_next_empty(puzzle) ==
    LET rows == { r \in Idx : \E c \in Idx : puzzle[r][c] = EMPTY }
    IN  IF rows = {} THEN None
        ELSE LET r == first_in_range(rows)
                 c == first_in_range({ x \in Idx : puzzle[r][x] = EMPTY })
             IN  <<r, c>>

\* ------------------------------------------------------------------------
\* is_valid: guess absent from the other cells of the row, the column and
\* the 3x3 square of (row, col)
\* ------------------------------------------------------------------------
\* the column loop left out
is_valid_skips_column(puzzle, guess, row, col) ==
    LET row_start == (row \div 3) * 3
        col_start == (col \div 3) * 3
    IN  /\ ~ \E c_idx \in Idx : puzzle[row][c_idx] = guess /\ c_idx # col
        /\ ~ \E r \in row_start .. row_start + 2 :
                \E c \in col_start .. col_start + 2 :
                    puzzle[r][c] = guess /\ <<r, c>> # <<row, col>>

is_valid(puzzle, guess, row, col) ==
    LET row_start == (row \div 3) * 3
        col_start == (col \div 3) * 3
    IN  IF \E c_idx \in Idx : puzzle[row][c_idx] = guess /\ c_idx # col
        THEN FALSE
        ELSE IF \E r_idx \in Idx : puzzle[r_idx][col] = guess /\ r_idx # row
        THEN FALSE
        ELSE IF \E r \in row_start .. row_start + 2 :
                \E c \in col_start .. col_start + 2 :
                    puzzle[r][c] = guess /\ <<r, c>> # <<row, col>>
        THEN FALSE
        ELSE TRUE

\* ------------------------------------------------------------------------
\* is_board_valid: no value other than -1 twice in a row, column or square
\* ------------------------------------------------------------------------
\* the set "seen" when the loop over the list nums reaches position k: the
\* values other than -1 at the positions before k
seen(nums, k) == { nums[j] : j \in { i \in 1 .. k - 1 : nums[i] # EMPTY } }

\* the loop over one row, column or square: False at the first value other
\* than -1 that is already in seen
seen_scan(nums) ==
    \A k \in 1 .. Len(nums) : nums[k] # EMPTY => nums[k] \notin seen(nums, k)

is_board_valid(puzzle) ==
    /\ \A r \in Idx : seen_scan([ k \in 1 .. 9 |-> puzzle[r][k - 1] ])
    /\ \A c \in Idx : seen_scan([ k \in 1 .. 9 |-> puzzle[k - 1][c] ])
    /\ \A box_r \in 0 .. 2 : \A box_c \in 0 .. 2 :
          seen_scan([ k \in 1 .. 9 |->
                        puzzle[box_r * 3 + ((k - 1) \div 3)]
                              [box_c * 3 + ((k - 1) % 3)] ])

\* ------------------------------------------------------------------------
\* read_puzzle_from_string: None on a wrong length or an illegal character,
\* otherwise the board (returned even when it breaks the rules)
\* ------------------------------------------------------------------------
int(char) == CHOOSE d \in Digits : DigitChars[d] = char

IsDigitChar(char) == \E d \in Digits : DigitChars[d] = char

read_puzzle_from_string(s, ec) ==
    IF Len(s) # 81 THEN None
    ELSE LET puzzle == [ r \in Idx |-> [ c \in Idx |->
                          LET char == s[r * 9 + c + 1]
                          IN  IF IsDigitChar(char) THEN int(char)
                              ELSE EMPTY ] ]
             valid_input == \A i \in 1 .. 81 :
                               IsDigitChar(s[i]) \/ s[i] = ec
         IN  IF ~valid_input THEN None ELSE puzzle

copy_board(puzzle) == [ r \in Idx |-> [ c \in Idx |-> puzzle[r][c] ] ]

\* ------------------------------------------------------------------------
\* get_possible_values
\* ------------------------------------------------------------------------
\* the test for a filled cell left out
get_possible_values_unguarded(puzzle, row, col) ==
    { guess \in Digits : is_valid(puzzle, guess, row, col) }

get_possible_values(puzzle, row, col) ==
    IF puzzle[row][col] # EMPTY THEN {}
    ELSE { guess \in Digits : is_valid(puzzle, guess, row, col) }

\* ------------------------------------------------------------------------
\* Initial state: the script is about to load one of the input strings
\* ------------------------------------------------------------------------
Init ==
    /\ puzzle_string \in Inputs
    /\ example_board = None
    /\ warned = FALSE
    /\ board_copy_for_solving = None
    /\ possible = {}
    /\ qcell = None
    /\ board_copy = None
    /\ solution_count = 0
    /\ num_solutions = 0
    /\ solved = FALSE
    /\ stack = << >>
    /\ retval = FALSE
    /\ pc = "read"
    /\ at = "idle"

\* main: example_board = read_puzzle_from_string(...); on success the copy
\* for solving is taken, otherwise "Failed to load puzzle from string."
\* a loader that gives no board when the board breaks the rules
Read_rejects_invalid ==
    /\ pc = "read"
    /\ LET b == read_puzzle_from_string(puzzle_string, empty_char)
       IN  IF b = None \/ ~is_board_valid(b)
           THEN /\ pc' = "failed"
                /\ UNCHANGED <<example_board, warned, board_copy_for_solving>>
           ELSE /\ example_board' = b
                /\ warned' = FALSE
                /\ board_copy_for_solving' = copy_board(b)
                /\ pc' = "loaded"
    /\ UNCHANGED <<puzzle_string, possible, qcell, board_copy, solution_count,
                   num_solutions, solved, stack, retval, at>>

Read ==
    /\ pc = "read"
    /\ LET b == read_puzzle_from_string(puzzle_string, empty_char)
       IN  IF b = None
           THEN /\ pc' = "failed"
                /\ UNCHANGED <<example_board, warned, board_copy_for_solving>>
           ELSE /\ example_board' = b
                /\ warned' = ~is_board_valid(b)
                /\ board_copy_for_solving' = copy_board(b)
                /\ pc' = "loaded"
    /\ UNCHANGED <<puzzle_string, possible, qcell, board_copy, solution_count,
                   num_solutions, solved, stack, retval, at>>

\* main: get_possible_values(board_copy_for_solving, r, c), asked here of
\* any cell of QueryCells (the script asks it of the first empty cell)
Query(r, c) ==
    /\ pc = "loaded"
    /\ possible' = get_possible_values(board_copy_for_solving, r, c)
    /\ qcell' = <<r, c>>
    /\ pc' = "queried"
    /\ UNCHANGED <<puzzle_string, example_board, warned, board_copy_for_solving,
                   board_copy, solution_count, num_solutions, solved, stack,
                   retval, at>>

\* ------------------------------------------------------------------------
\* The recursion: a frame per active call, holding its cell, its loop
\* variable and the board it was called with (kept for the proofs only).
\* at = "call": a call is about to run find_next_empty;
\* at = "loop": the top frame is at the head of "for guess in range(1, 10)";
\* at = "ret" : a call has just returned retval to the frame below it.
\* ------------------------------------------------------------------------
Top == stack[Len(stack)]

Pop == SubSeq(stack, 1, Len(stack) - 1)

NextGuess == [stack EXCEPT ![Len(stack)].guess = @ + 1]

Frame(rc, puzzle) ==
    [row |-> rc[1], col |-> rc[2], guess |-> 1, called_with |-> puzzle]

\* puzzle[row][col] = value
set_cell(puzzle, row, col, value) == [puzzle EXCEPT ![row][col] = value]

\* count_solutions hands the helper board_copy, not the caller's board: the
\* helper's parameter "puzzle" is a reference to that object
count_helper_arg_original == "puzzle"

count_helper_arg == "board_copy"

\* the board the helper's parameter "puzzle" refers to
helper_puzzle ==
    IF count_helper_arg = "board_copy" THEN board_copy ELSE example_board

\* an assignment through the helper's parameter "puzzle"
helper_puzzle_becomes(value) ==
    IF count_helper_arg = "board_copy"
    THEN board_copy' = value /\ UNCHANGED example_board
    ELSE example_board' = value /\ UNCHANGED board_copy

\* count_solutions: the helper is started on a deep copy, counter at 0
CountCall ==
    /\ pc \in {"loaded", "queried"}
    /\ board_copy' = copy_board(example_board)
    /\ solution_count' = 0
    /\ possible' = {}
    /\ qcell' = None
    /\ pc' = "count"
    /\ at' = "call"
    /\ UNCHANGED <<puzzle_string, example_board, warned, board_copy_for_solving,
                   num_solutions, solved, stack, retval>>

\* _count_solutions_helper, entry: a full board is one more solution and
\* the call returns False; otherwise the loop over the guesses starts
\* the optimisation left commented out in the helper: stop at two solutions
CountEnter_stops_at_two ==
    /\ pc = "count" /\ at = "call"
    /\ LET rc == find_next_empty(helper_puzzle)
       IN  IF rc = None
           THEN /\ solution_count' = solution_count + 1
                /\ retval' = (solution_count + 1 >= 2)
                /\ at' = "ret"
                /\ UNCHANGED stack
           ELSE /\ stack' = Append(stack, Frame(rc, helper_puzzle))
                /\ at' = "loop"
                /\ UNCHANGED <<solution_count, retval>>
    /\ UNCHANGED <<puzzle_string, example_board, warned, board_copy_for_solving,
                   possible, qcell, board_copy, num_solutions, solved, pc>>

\* a base case that forgets to count
CountEnter_no_increment ==
    /\ pc = "count" /\ at = "call"
    /\ LET rc == find_next_empty(helper_puzzle)
       IN  IF rc = None
           THEN /\ retval' = FALSE
                /\ at' = "ret"
                /\ UNCHANGED <<stack, solution_count>>
           ELSE /\ stack' = Append(stack, Frame(rc, helper_puzzle))
                /\ at' = "loop"
                /\ UNCHANGED <<solution_count, retval>>
    /\ UNCHANGED <<puzzle_string, example_board, warned, board_copy_for_solving,
                   possible, qcell, board_copy, num_solutions, solved, pc>>

CountEnter ==
    /\ pc = "count" /\ at = "call"
    /\ LET rc == find_next_empty(helper_puzzle)
       IN  IF rc = None
           THEN /\ solution_count' = solution_count + 1
                /\ retval' = FALSE
                /\ at' = "ret"
                /\ UNCHANGED stack
           ELSE /\ stack' = Append(stack, Frame(rc, helper_puzzle))
                /\ at' = "loop"
                /\ UNCHANGED <<solution_count, retval>>
    /\ UNCHANGED <<puzzle_string, example_board, warned, board_copy_for_solving,
                   possible, qcell, board_copy, num_solutions, solved, pc>>

\* _count_solutions_helper, one turn of the loop: a valid guess is placed
\* and the helper called again; after guess 9 the call returns False
CountTry ==
    /\ pc = "count" /\ at = "loop"
    /\ IF Top.guess > 9
       THEN /\ stack' = Pop
            /\ retval' = FALSE
            /\ at' = "ret"
            /\ UNCHANGED <<example_board, board_copy>>
       ELSE IF is_valid(helper_puzzle, Top.guess, Top.row, Top.col)
       THEN /\ helper_puzzle_becomes(
                   set_cell(helper_puzzle, Top.row, Top.col, Top.guess))
            /\ at' = "call"
            /\ UNCHANGED <<stack, retval>>
       ELSE /\ stack' = NextGuess
            /\ UNCHANGED <<example_board, board_copy, retval, at>>
    /\ UNCHANGED <<puzzle_string, warned, board_copy_for_solving,
                   possible, qcell, solution_count, num_solutions, solved, pc>>

\* _count_solutions_helper, after the recursive call: True is passed up
\* with the guess left in place, otherwise the guess is taken back
\* the guess is not taken back before the next one is tried
CountReturn_no_undo ==
    /\ pc = "count" /\ at = "ret" /\ stack # << >>
    /\ IF retval
       THEN /\ stack' = Pop
            /\ UNCHANGED <<retval, at>>
       ELSE /\ stack' = NextGuess
            /\ at' = "loop"
            /\ UNCHANGED retval
    /\ UNCHANGED <<puzzle_string, example_board, board_copy, warned,
                   board_copy_for_solving, possible, qcell, solution_count,
                   num_solutions, solved, pc>>

CountReturn ==
    /\ pc = "count" /\ at = "ret" /\ stack # << >>
    /\ IF retval
       THEN /\ stack' = Pop
            /\ UNCHANGED <<example_board, board_copy, retval, at>>
       ELSE /\ helper_puzzle_becomes(
                   set_cell(helper_puzzle, Top.row, Top.col, EMPTY))
            /\ stack' = NextGuess
            /\ at' = "loop"
            /\ UNCHANGED retval
    /\ UNCHANGED <<puzzle_string, warned, board_copy_for_solving,
                   possible, qcell, solution_count, num_solutions, solved, pc>>

\* count_solutions returns solution_count[0]; main then calls solve_sudoku
CountDone ==
    /\ pc = "count" /\ at = "ret" /\ stack = << >>
    /\ num_solutions' = solution_count
    /\ pc' = "solve"
    /\ at' = "call"
    /\ UNCHANGED <<puzzle_string, example_board, warned, board_copy_for_solving,
                   possible, qcell, board_copy, solution_count, solved, stack,
                   retval>>

\* solve_sudoku, entry: True on a full board, else the loop starts
SolveEnter ==
    /\ pc = "solve" /\ at = "call"
    /\ LET rc == find_next_empty(board_copy_for_solving)
       IN  IF rc = None
           THEN /\ retval' = TRUE
                /\ at' = "ret"
                /\ UNCHANGED stack
           ELSE /\ stack' = Append(stack, Frame(rc, board_copy_for_solving))
                /\ at' = "loop"
                /\ UNCHANGED retval
    /\ UNCHANGED <<puzzle_string, example_board, warned, board_copy_for_solving,
                   possible, qcell, board_copy, solution_count, num_solutions,
                   solved, pc>>

\* the counting test "no value of 1..9 more than once" on a list of values
count_le_1(nums) ==
    \A x \in Digits :
        (\E k \in DOMAIN nums : nums[k] = x)
            => Cardinality({ k \in DOMAIN nums : nums[k] = x }) <= 1

\* solve_sudoku, the trial placement: guess is written, the row, column and
\* box are counted into is_valid_placement, and original_value is written
\* back; the board after these lines is what is_valid is then asked about
\* original_value is not written back after the trial
trial_placement_no_restore(puzzle, guess, row, col) ==
    [ puzzle |-> set_cell(puzzle, row, col, guess),
      is_valid_placement |-> TRUE ]

trial_placement(puzzle, guess, row, col) ==
    LET original_value == puzzle[row][col]
        placed == set_cell(puzzle, row, col, guess)
        row_start == (row \div 3) * 3
        col_start == (col \div 3) * 3
        box_nums == [ k \in 1 .. 9 |->
                        placed[row_start + ((k - 1) \div 3)]
                              [col_start + ((k - 1) % 3)] ]
        is_valid_placement ==
            /\ count_le_1([ k \in 1 .. 9 |-> placed[row][k - 1] ])
            /\ count_le_1([ k \in 1 .. 9 |-> placed[k - 1][col] ])
            /\ count_le_1(box_nums)
    IN  [ puzzle |-> set_cell(placed, row, col, original_value),
          is_valid_placement |-> is_valid_placement ]

\* solve_sudoku, one turn of the loop
SolveTry ==
    /\ pc = "solve" /\ at = "loop"
    /\ IF Top.guess > 9
       THEN /\ stack' = Pop
            /\ retval' = FALSE
            /\ at' = "ret"
            /\ UNCHANGED board_copy_for_solving
       ELSE LET puzzle == trial_placement(board_copy_for_solving, Top.guess,
                                          Top.row, Top.col).puzzle
            IN  IF is_valid(puzzle, Top.guess, Top.row, Top.col)
                THEN /\ board_copy_for_solving' =
                            set_cell(puzzle, Top.row, Top.col, Top.guess)
                     /\ at' = "call"
                     /\ UNCHANGED <<stack, retval>>
                ELSE /\ board_copy_for_solving' = puzzle
                     /\ stack' = NextGuess
                     /\ UNCHANGED <<retval, at>>
    /\ UNCHANGED <<puzzle_string, example_board, warned, possible, qcell,
                   board_copy, solution_count, num_solutions, solved, pc>>

\* solve_sudoku, after the recursive call: True is passed up with the
\* guess left in place, False makes the guess be undone
\* the undo writes puzzle[col][row] instead of puzzle[row][col]
SolveReturn_undo_transposed ==
    /\ pc = "solve" /\ at = "ret" /\ stack # << >>
    /\ IF retval
       THEN /\ stack' = Pop
            /\ UNCHANGED <<board_copy_for_solving, retval, at>>
       ELSE /\ board_copy_for_solving' =
                   set_cell(board_copy_for_solving, Top.col, Top.row, EMPTY)
            /\ stack' = NextGuess
            /\ at' = "loop"
            /\ UNCHANGED retval
    /\ UNCHANGED <<puzzle_string, example_board, warned, possible, qcell,
                   board_copy, solution_count, num_solutions, solved, pc>>

SolveReturn ==
    /\ pc = "solve" /\ at = "ret" /\ stack # << >>
    /\ IF retval
       THEN /\ stack' = Pop
            /\ UNCHANGED <<board_copy_for_solving, retval, at>>
       ELSE /\ board_copy_for_solving' =
                   set_cell(board_copy_for_solving, Top.row, Top.col, EMPTY)
            /\ stack' = NextGuess
            /\ at' = "loop"
            /\ UNCHANGED retval
    /\ UNCHANGED <<puzzle_string, example_board, warned, possible, qcell,
                   board_copy, solution_count, num_solutions, solved, pc>>

\* main: the outermost solve_sudoku has returned
SolveDone ==
    /\ pc = "solve" /\ at = "ret" /\ stack = << >>
    /\ solved' = retval
    /\ pc' = "done"
    /\ at' = "idle"
    /\ UNCHANGED <<puzzle_string, example_board, warned, board_copy_for_solving,
                   possible, qcell, board_copy, solution_count, num_solutions,
                   stack, retval>>

QueryCells == FreeCells \cup { <<0, 1>>, <<4, 4>>, <<8, 8>> }

Next ==
    \/ Read
    \/ \E rc \in QueryCells : Query(rc[1], rc[2])
    \/ CountCall
    \/ CountEnter
    \/ CountTry
    \/ CountReturn
    \/ CountDone
    \/ SolveEnter
    \/ SolveTry
    \/ SolveReturn
    \/ SolveDone

Spec == Init /\ [][Next]_vars

\* ========================================================================
\* Properties
\* ========================================================================
Cells == Idx \X Idx

Box(rc) == << rc[1] \div 3, rc[2] \div 3 >>

SameUnit(a, b) == a[1] = b[1] \/ a[2] = b[2] \/ Box(a) = Box(b)

Peers(rc) == { p \in Cells : p # rc /\ SameUnit(p, rc) }

EmptyCells(g) == { rc \in Cells : g[rc[1]][rc[2]] = EMPTY }

NoEmpty(g) == \A rc \in Cells : g[rc[1]][rc[2]] # EMPTY

\* no digit twice in a row, a column or a box
NoRepeat(g) ==
    \A a \in Cells :
        g[a[1]][a[2]] # EMPTY =>
            \A b \in Peers(a) : g[b[1]][b[2]] # g[a[1]][a[2]]

RowMajorBefore(a, b) == a[1] < b[1] \/ (a[1] = b[1] /\ a[2] < b[2])

\* the 27 rows, columns and boxes, each as its set of cells
Units ==
    { { <<r, c>> : c \in Idx } : r \in Idx }
    \cup { { <<r, c>> : r \in Idx } : c \in Idx }
    \cup { { rc \in Cells : Box(rc) = <<br, bc>> } : br \in 0 .. 2, bc \in 0 .. 2 }

\* the complete grids that keep every filled cell of g and repeat no digit
\* in any unit, each given by its digits on the empty cells of g
Completions(g) ==
    LET E == EmptyCells(g)
        V(f, rc) == IF rc \in E THEN f[rc] ELSE g[rc[1]][rc[2]]
    IN  { f \in [E -> Digits] :
            \A u \in Units : Cardinality({ V(f, rc) : rc \in u }) = 9 }

Loaded == pc \notin {"read", "failed"}

CountReturned == pc = "solve" /\ at = "call" /\ stack = << >>

\* ---- C1 ----------------------------------------------------------------
\* C1 as stated: whenever solve_sudoku returns True, the grid it leaves has
\* no empty cell and repeats no digit in any row, column or box.
C1_Original ==
    (pc = "done" /\ solved) =>
        /\ NoEmpty(board_copy_for_solving)
        /\ is_board_valid(board_copy_for_solving)

\* C1 amended: whenever solve_sudoku returns True on a grid whose pre-filled
\* cells repeat no digit in any row, column or box, the grid it leaves has
\* no empty cell and passes is_board_valid (no digit repeated in any unit).
C1_SolvedGridValid ==
    (pc = "done" /\ solved /\ is_board_valid(example_board)) =>
        /\ NoEmpty(board_copy_for_solving)
        /\ is_board_valid(board_copy_for_solving)
        /\ NoRepeat(board_copy_for_solving)

C1_Witness ==
    /\ pc = "done" /\ solved
    /\ is_board_valid(example_board)
    /\ Cardinality(EmptyCells(example_board)) >= 3
    /\ NoEmpty(board_copy_for_solving)

\* ---- C2 ----------------------------------------------------------------
\* C2 as stated: a supplied grid with a repeated digit among its pre-filled
\* cells is rejected when it is loaded, and neither count_solutions nor
\* solve_sudoku ever runs on it and returns.
C2_Original ==
    LET b == read_puzzle_from_string(puzzle_string, empty_char)
    IN  (b # None /\ ~NoRepeat(b)) =>
            /\ pc \in {"read", "failed"}
            /\ example_board = None

\* C2 amended: a well-formed string whose grid repeats a digit among its
\* pre-filled cells is not rejected: the load fails only on a string of the
\* wrong length or with an illegal character; otherwise
\* read_puzzle_from_string returns the grid as parsed, printing the warning
\* exactly when the grid repeats a digit, and the run goes on to count and
\* solve on it.
C2_WarnedNotRejected ==
    /\ pc = "failed" =>
          read_puzzle_from_string(puzzle_string, empty_char) = None
    /\ pc = "loaded" =>
          /\ example_board = read_puzzle_from_string(puzzle_string, empty_char)
          /\ example_board # None
          /\ warned <=> ~NoRepeat(example_board)

C2_Witness ==
    /\ pc = "done"
    /\ warned
    /\ ~NoRepeat(example_board)
    /\ num_solutions >= 1
    /\ solved

\* ---- C3 ----------------------------------------------------------------
\* C3: count_solutions never writes the caller's grid: from the call to the
\* return no step changes any cell of it, so after the return every cell
\* holds the value it held immediately before the call, whatever the count.
C3_CountKeepsCallerGrid ==
    [][ (pc \in {"loaded", "queried", "count"}) =>
            example_board' = example_board ]_vars

C3_Witness ==
    /\ CountReturned
    /\ num_solutions = 2
    /\ example_board = read_puzzle_from_string(puzzle_string, empty_char)
    /\ board_copy = example_board

\* ---- C4 ----------------------------------------------------------------
\* C4: on a grid whose pre-filled cells repeat no digit, count_solutions
\* returns the number of complete grids that keep every pre-filled cell and
\* repeat no digit in any row, column or box.
C4_CountIsExact ==
    (CountReturned /\ NoRepeat(example_board)) =>
        num_solutions = Cardinality(Completions(example_board))

C4_Witness ==
    /\ CountReturned
    /\ NoRepeat(example_board)
    /\ num_solutions = 2
    /\ Cardinality(EmptyCells(example_board)) = 4

\* ---- C5 ----------------------------------------------------------------
\* C5 as stated: for every cap limit > 0 asked for, the value count_solutions
\* returns is at most limit (count_solutions takes no cap, so the value it
\* returns is the same whatever cap the caller had in mind).
C5_Original ==
    \A limit \in 1 .. 2 : CountReturned => num_solutions <= limit

\* C5 amended: count_solutions has no cap: no call of the helper ever
\* signals stop (each returns False), every guess placed is taken back, and
\* the search runs to the end, so that the value returned can exceed any
\* cap the caller had in mind (2 solutions are reported as 2, not as 1).
C5_NeverStops ==
    /\ (pc = "count" /\ at = "ret") => ~retval
    /\ CountReturned => board_copy = example_board

C5_Witness ==
    /\ CountReturned
    /\ num_solutions = 2
    /\ ~retval

\* ---- C6 ----------------------------------------------------------------
\* C6: on every grid, if count_solutions returns 0 then solve_sudoku returns
\* False, and if solve_sudoku returns True then count_solutions is >= 1.
C6_NoSolutionMeansFalse ==
    pc = "done" =>
        /\ num_solutions = 0 => solved = FALSE
        /\ solved = TRUE => num_solutions >= 1

C6_Witness ==
    /\ pc = "done"
    /\ num_solutions = 0
    /\ solved = FALSE
    /\ NoRepeat(example_board)
    /\ Cardinality(EmptyCells(example_board)) >= 2

\* ---- C7 ----------------------------------------------------------------
\* C7: get_possible_values gives the empty set on a filled cell, on an empty
\* cell exactly the digits held by no other cell of its row, column and
\* box, and leaves the grid as it was.
C7_PossibleValues ==
    pc = "queried" =>
        LET g == board_copy_for_solving
        IN  /\ g[qcell[1]][qcell[2]] # EMPTY => possible = {}
            /\ g[qcell[1]][qcell[2]] = EMPTY =>
                  possible = Digits \ { g[p[1]][p[2]] : p \in Peers(qcell) }
            /\ g = example_board
            /\ g = read_puzzle_from_string(puzzle_string, empty_char)

C7_Witness ==
    /\ pc = "queried"
    /\ board_copy_for_solving[qcell[1]][qcell[2]] = EMPTY
    /\ Cardinality(possible) = 2

\* ---- C8 ----------------------------------------------------------------
\* the board the running search works on
SearchBoard == IF pc = "count" THEN helper_puzzle ELSE board_copy_for_solving

Candidates(g, rc) == Digits \ { g[p[1]][p[2]] : p \in Peers(rc) }

\* the cell a minimum-remaining-values scan picks: the first empty cell, in
\* row-major order, with at most one candidate if there is one before which
\* the scan does not end, else the first with the fewest candidates
MRVCell(g) ==
    LET E == EmptyCells(g)
        n(rc) == Cardinality(Candidates(g, rc))
        forced == { rc \in E : n(rc) <= 1 }
        fewest == { rc \in E : \A o \in E : n(rc) <= n(o) }
        first(S) == CHOOSE rc \in S : \A o \in S : o = rc \/ RowMajorBefore(rc, o)
    IN  IF forced # {} THEN first(forced) ELSE first(fewest)

\* C8 as stated: the cell chosen for the next placement is the one a
\* minimum-remaining-values scan picks.
C8_Original ==
    (pc \in {"count", "solve"} /\ at = "loop" /\ Top.guess = 1) =>
        <<Top.row, Top.col>> = MRVCell(SearchBoard)

\* C8 amended: the cell chosen for the next placement is the first empty
\* cell in row-major order, whatever its number of candidates; no cell is
\* chosen (None, None) exactly when the board has no empty cell.
C8_FirstEmptyCell ==
    /\ \A i \in DOMAIN stack :
          LET f == stack[i]
          IN  /\ f.called_with[f.row][f.col] = EMPTY
              /\ \A rc \in Cells :
                    RowMajorBefore(rc, <<f.row, f.col>>) =>
                        f.called_with[rc[1]][rc[2]] # EMPTY
    /\ (pc \in {"count", "solve"} /\ at = "call") =>
          (find_next_empty(SearchBoard) = None <=> NoEmpty(SearchBoard))
    /\ (pc = "solve" /\ at = "ret" /\ retval) => NoEmpty(SearchBoard)

C8_Witness ==
    /\ pc = "solve" /\ at = "loop" /\ Top.guess = 1
    /\ <<Top.row, Top.col>> # MRVCell(SearchBoard)
    /\ Cardinality(Candidates(SearchBoard, <<Top.row, Top.col>>)) = 2

\* ---- C9 ----------------------------------------------------------------
\* C9: in solve_sudoku, whenever a call is at the head of its loop (on
\* entry, after a rejected guess, after an undone placement) the grid is the
\* grid the call was made with, and whenever a call has returned False the
\* grid is the grid that call was made with.
C9_BacktrackRestores ==
    /\ (pc = "solve" /\ at = "loop") =>
          board_copy_for_solving = Top.called_with
    /\ (pc = "solve" /\ at = "ret" /\ ~retval /\ stack # << >>) =>
          board_copy_for_solving =
              set_cell(Top.called_with, Top.row, Top.col, Top.guess)
    /\ (pc = "solve" /\ at = "ret" /\ ~retval /\ stack = << >>) =>
          board_copy_for_solving = example_board
    /\ (pc = "done" /\ ~solved) => board_copy_for_solving = example_board

\* the outermost call is about to return False after a guess that was valid,
\* hence placed, explored without success and undone
C9_Witness ==
    /\ pc = "solve" /\ at = "loop"
    /\ Top.guess = 10
    /\ \E g \in Digits :
          is_valid(board_copy_for_solving, g, Top.row, Top.col)
    /\ Len(stack) = 1

\* ---- C10 ---------------------------------------------------------------
\* C10: during solve_sudoku and after it, whatever it returns, every cell
\* that was filled at the call holds the digit it held then; a grid with no
\* empty cell is left as it is and solve_sudoku returns True on it.
C10_PrefilledKept ==
    pc \in {"solve", "done"} =>
        /\ \A rc \in Cells :
              example_board[rc[1]][rc[2]] # EMPTY =>
                  board_copy_for_solving[rc[1]][rc[2]]
                      = example_board[rc[1]][rc[2]]
        /\ NoEmpty(example_board) =>
              /\ board_copy_for_solving = example_board
              /\ stack = << >>
              /\ pc = "done" => solved

C10_Witness ==
    /\ pc = "done"
    /\ solved
    /\ board_copy_for_solving # example_board
    /\ Cardinality(EmptyCells(example_board)) = 4
====
